---- MODULE Spec2Model ----
(***************************************************************************)
(* Yeo-Johnson power transformer (pynorm/preprocessing/_yj.py): the        *)
(* forward and inverse primitives, the log-likelihood evaluator, the       *)
(* per-feature estimator and the fit / transform / inverse_transform       *)
(* estimator object.                                                       *)
(*                                                                         *)
(* Real arithmetic is exact.  A number is a record:                        *)
(*   [k |-> "q", n, d, e]   the real n/d + e * TICK, d > 0, gcd(n,d) = 1,  *)
(*                          TICK = 5e-13 (half of ZERO = 1e-12); e # 0     *)
(*                          only for the lambdas probing the tolerance     *)
(*   [k |-> "ln", a]        ln(a), a rational, a > 0, a # 1                *)
(*   [k |-> "nan"], [k |-> "inf", s]   IEEE NaN and +-infinity             *)
(*   [k |-> "op", f, a, b]  a real with no closed form above: the term     *)
(*                          f(a, b), kept as written                       *)
(* The arithmetic operators compute exactly where the result is rational   *)
(* or a logarithm of a rational, cancel inverse operations (t/c*c, t-c+c,  *)
(* (t^c)^(1/c), exp(ln t)), and otherwise build the term.  Floating-point  *)
(* rounding is not modelled.                                               *)
(***************************************************************************)
EXTENDS Integers, Sequences, FiniteSets, TLC

\* ---------------------------------------------------------------- numbers

RECURSIVE Gcd(_, _)
Gcd(a, b) == IF b = 0 THEN a ELSE Gcd(b, a % b)

IAbs(i) == IF i < 0 THEN -i ELSE i

\* n/d + e ticks, normalised (d # 0)
QE(n, d, e) ==
  LET g == Gcd(IAbs(n), IAbs(d))
      s == IF d < 0 THEN -1 ELSE 1
  IN  [k |-> "q", n |-> (s * n) \div g, d |-> (s * d) \div g, e |-> e]

QQ(n, d) == QE(n, d, 0)
I(n) == [k |-> "q", n |-> n, d |-> 1, e |-> 0]
Q0 == I(0)
Q1 == I(1)
Q2 == I(2)
NaN == [k |-> "nan"]
Inf(s) == [k |-> "inf", s |-> s]
None == [k |-> "none"]
Op(f, a, b) == [k |-> "op", f |-> f, a |-> a, b |-> b]

IsNaN(v) == v.k = "nan"
IsInf(v) == v.k = "inf"
IsQ(v) == v.k = "q"
\* a rational with no tick part
IsR(v) == v.k = "q" /\ v.e = 0
IsOp(v, f) == v.k = "op" /\ v.f = f

\* ln of a small positive integer in thousandths (used only to order and
\* to sign terms that mix logarithms and rationals)
RECURSIVE LnInt(_)
LnInt(m) ==
  CASE m <= 1 -> 0
    [] m = 2 -> 693
    [] m = 3 -> 1099
    [] m = 5 -> 1609
    [] m = 7 -> 1946
    [] m = 11 -> 2398
    [] m = 13 -> 2565
    [] m = 15 -> 2708
    [] m = 9 -> 2197
    [] m < 16 -> 693 + LnInt(m \div 2)
    [] OTHER -> 693 + LnInt(m \div 2) + (IF m % 2 = 1 THEN 1000 \div (m - 1) ELSE 0)

\* -1, 0, 1: the sign; 2: not determined by the rules below; 3: NaN
RECURSIVE Sign(_)
Sign(v) ==
  CASE v.k = "q" -> IF v.n > 0 THEN 1 ELSE IF v.n < 0 THEN -1
                    ELSE IF v.e > 0 THEN 1 ELSE IF v.e < 0 THEN -1 ELSE 0
    [] v.k = "ln" -> IF v.a.n > v.a.d THEN 1 ELSE -1
    [] v.k = "inf" -> v.s
    [] v.k = "nan" -> 3
    [] v.k = "op" ->
         CASE v.f = "pow" -> 1
           [] v.f = "exp" -> 1
           [] v.f = "neg" -> LET s == Sign(v.a) IN IF s \in {-1, 0, 1} THEN -s ELSE s
           [] v.f \in {"mul", "div"} ->
                LET s == Sign(v.a)
                    t == Sign(v.b)
                IN  IF s \in {-1, 0, 1} /\ t \in {-1, 0, 1} THEN s * t ELSE 2
           \* b^c - 1 with b rational: above 1 exactly when b > 1 and c > 0
           \* or b < 1 and c < 0
           [] v.f = "sub" /\ IsOp(v.a, "pow") /\ v.b = Q1 /\ IsR(v.a.a) ->
                LET s == Sign(v.a.b)
                    c == IF v.a.a.n > v.a.a.d THEN 1
                         ELSE IF v.a.a.n < v.a.a.d THEN -1 ELSE 0
                IN  IF s \in {-1, 0, 1} THEN s * c ELSE 2
           \* ln(a) +- r with r rational: the sign of ln(a) when r is within
           \* ticks of 0, else by the thousandths
           [] v.f \in {"add", "sub"} /\ v.a.k = "ln" /\ IsQ(v.b) ->
                LET r == IF v.f = "add" THEN (1000 * v.b.n) \div v.b.d
                         ELSE -((1000 * v.b.n) \div v.b.d)
                    t == LnInt(v.a.a.n) - LnInt(v.a.a.d) + r
                IN  IF v.b.n = 0 THEN Sign(v.a)
                    ELSE IF t > 0 THEN 1 ELSE IF t < 0 THEN -1 ELSE 0
           [] OTHER -> 2
    [] OTHER -> 2

Neg(a) ==
  CASE a.k = "q" -> QE(-a.n, a.d, -a.e)
    [] a.k = "ln" -> [k |-> "ln", a |-> QQ(a.a.d, a.a.n)]
    [] a.k = "nan" -> NaN
    [] a.k = "inf" -> Inf(-a.s)
    [] IsOp(a, "neg") -> a.a
    [] OTHER -> Op("neg", a, None)

Add(a, b) ==
  CASE IsNaN(a) \/ IsNaN(b) -> NaN
    [] IsInf(a) -> a
    [] IsInf(b) -> b
    [] IsQ(a) /\ IsQ(b) -> QE(a.n * b.d + b.n * a.d, a.d * b.d, a.e + b.e)
    [] a = Q0 -> b
    [] b = Q0 -> a
    [] IsOp(a, "sub") /\ a.b = b -> a.a
    [] OTHER -> Op("add", a, b)

Sub(a, b) ==
  CASE IsNaN(a) \/ IsNaN(b) -> NaN
    [] IsInf(a) -> a
    [] IsInf(b) -> Neg(b)
    [] IsQ(a) /\ IsQ(b) -> QE(a.n * b.d - b.n * a.d, a.d * b.d, a.e - b.e)
    [] b = Q0 -> a
    [] IsOp(a, "add") /\ a.b = b -> a.a
    [] OTHER -> Op("sub", a, b)

\* integer power of a rational, p >= 0
RECURSIVE IPow(_, _)
IPow(b, p) == IF p = 0 THEN 1 ELSE b * IPow(b, p - 1)

\* the exact q-th root of the natural number m, or -1 when m has none
RECURSIVE RootFrom(_, _, _)
RootFrom(m, q, r) ==
  IF IPow(r, q) = m THEN r
  ELSE IF IPow(r, q) > m THEN -1
  ELSE RootFrom(m, q, r + 1)

Root(m, q) == IF q = 1 THEN m ELSE RootFrom(m, q, 0)

Mul(a, b) ==
  CASE IsNaN(a) \/ IsNaN(b) -> NaN
    [] IsInf(a) \/ IsInf(b) ->
         IF Sign(a) \in {-1, 1} /\ Sign(b) \in {-1, 1} THEN Inf(Sign(a) * Sign(b)) ELSE NaN
    [] IsR(a) /\ IsR(b) -> QQ(a.n * b.n, a.d * b.d)
    [] a = Q0 \/ b = Q0 -> Q0
    [] a = Q1 -> b
    [] b = Q1 -> a
    \* an integer times n/d + e ticks
    [] IsR(a) /\ a.d = 1 /\ IsQ(b) -> QE(a.n * b.n, b.d, a.n * b.e)
    [] IsR(b) /\ b.d = 1 /\ IsQ(a) -> QE(a.n * b.n, a.d, b.n * a.e)
    [] IsOp(a, "div") /\ a.b = b -> a.a
    [] IsOp(b, "div") /\ b.b = a -> b.a
    \* r * ln(c) = ln(c^r) for an integer r
    [] a.k = "ln" /\ IsR(b) /\ b.d = 1 /\ IAbs(b.n) <= 3 ->
         IF b.n > 0 THEN [k |-> "ln", a |-> QQ(IPow(a.a.n, b.n), IPow(a.a.d, b.n))]
         ELSE [k |-> "ln", a |-> QQ(IPow(a.a.d, -b.n), IPow(a.a.n, -b.n))]
    [] b.k = "ln" /\ IsR(a) /\ a.d = 1 /\ IAbs(a.n) <= 3 ->
         IF a.n > 0 THEN [k |-> "ln", a |-> QQ(IPow(b.a.n, a.n), IPow(b.a.d, a.n))]
         ELSE [k |-> "ln", a |-> QQ(IPow(b.a.d, -a.n), IPow(b.a.n, -a.n))]
    [] OTHER -> Op("mul", a, b)

Div(a, b) ==
  CASE IsNaN(a) \/ IsNaN(b) -> NaN
    [] IsInf(b) -> IF IsInf(a) THEN NaN ELSE Q0
    [] IsInf(a) -> IF Sign(b) = -1 THEN Neg(a) ELSE a
    [] b = Q0 -> IF Sign(a) = 1 THEN Inf(1) ELSE IF Sign(a) = -1 THEN Inf(-1) ELSE NaN
    [] IsR(a) /\ IsR(b) -> QQ(a.n * b.d, a.d * b.n)
    [] a = Q0 -> Q0
    [] b = Q1 -> a
    [] IsOp(a, "mul") /\ a.b = b -> a.a
    [] OTHER -> Op("div", a, b)

\* b^e as numpy.power computes it on floats
Pow(b, e) ==
  CASE b = Q1 -> Q1
    [] e = Q0 -> Q1
    [] IsNaN(b) \/ IsNaN(e) -> NaN
    [] e = Q1 -> b
    [] IsR(b) /\ IsR(e) ->
         LET p == IAbs(e.n)
             q == e.d
             up == e.n > 0
         IN  CASE b.n = 0 -> IF up THEN Q0 ELSE Inf(1)
               [] b.n < 0 /\ q # 1 -> NaN
               [] b.n < 0 ->
                    IF up THEN QQ(IPow(b.n, p), IPow(b.d, p))
                    ELSE QQ(IPow(b.d, p), IPow(b.n, p))
               [] OTHER ->
                    LET rn == Root(b.n, q)
                        rd == Root(b.d, q)
                    IN  IF rn = -1 \/ rd = -1 THEN Op("pow", b, e)
                        ELSE IF up THEN QQ(IPow(rn, p), IPow(rd, p))
                        ELSE QQ(IPow(rd, p), IPow(rn, p))
    \* (t^c)^(1/c) = t for t > 0
    [] IsOp(b, "pow") /\ e = Div(Q1, b.b) /\ Sign(b.a) = 1 -> b.a
    [] Sign(b) = 0 -> IF Sign(e) = 1 THEN Q0 ELSE Inf(1)
    \* a negative base with an exponent that is no integer
    [] Sign(b) = -1 /\ ~(IsR(e) /\ e.d = 1) -> NaN
    [] OTHER -> Op("pow", b, e)

Ln(v) ==
  CASE IsNaN(v) -> NaN
    [] v = Q1 -> Q0
    [] IsR(v) -> IF v.n > 0 THEN [k |-> "ln", a |-> v]
                 ELSE IF v.n = 0 THEN Inf(-1) ELSE NaN
    [] IsInf(v) -> IF v.s = 1 THEN v ELSE NaN
    [] IsOp(v, "exp") -> v.a
    [] Sign(v) = -1 -> NaN
    [] OTHER -> Op("ln", v, None)

Exp(v) ==
  CASE IsNaN(v) -> NaN
    [] v = Q0 -> Q1
    [] v.k = "ln" -> v.a
    [] IsInf(v) -> IF v.s = 1 THEN v ELSE Q0
    [] OTHER -> Op("exp", v, None)

Abs(v) == IF Sign(v) = -1 THEN Neg(v) ELSE v

\* a >= 0, a < 0, a <= b as Python compares floats: False on NaN
GE0(a) == Sign(a) \in {0, 1}
LT0(a) == Sign(a) = -1
LE(a, b) == Sign(Sub(a, b)) \in {-1, 0}
LT(a, b) == Sign(Sub(a, b)) = -1

\* ------------------------------------------------- the transform primitives

\* ZERO = 1e-12: two ticks
ZERO == QE(0, 1, 2)

\* np.abs(lam) < v
_eqls_strict(lam, v) == LT(Abs(lam), v)

_eqls(lam, v) == LE(Abs(lam), v)

\* the case of the forward rule taken for (x, lam) and the value computed
_yj_trans_single_x_case(x, lam) ==
  IF GE0(x)
  THEN IF ~_eqls(lam, ZERO) THEN "pos_power" ELSE "pos_log"
  ELSE IF ~_eqls(lam, Q2) THEN "neg_power" ELSE "neg_log"

\* the forward rule without the sign it gives the values of a negative x
_yj_trans_single_x_unsigned(x, lam) ==
  IF GE0(x)
  THEN IF ~_eqls(lam, ZERO)
       THEN Div(Sub(Pow(Add(x, Q1), lam), Q1), lam)
       ELSE Ln(Add(x, Q1))
  ELSE IF ~_eqls(lam, Q2)
       THEN Div(Sub(Pow(Add(Neg(x), Q1), Sub(Q2, lam)), Q1), Sub(Q2, lam))
       ELSE Ln(Add(Neg(x), Q1))

_yj_trans_single_x(x, lam) ==
  IF GE0(x)
  THEN IF ~_eqls(lam, ZERO)
       THEN Div(Sub(Pow(Add(x, Q1), lam), Q1), lam)
       ELSE Ln(Add(x, Q1))
  ELSE IF ~_eqls(lam, Q2)
       THEN LET denom == Sub(Q2, lam)
                numer == Sub(Pow(Add(Neg(x), Q1), Sub(Q2, lam)), Q1)
            IN  Div(Neg(numer), denom)
       ELSE Neg(Ln(Add(Neg(x), Q1)))

_yj_transform_y(y, lam) == [i \in 1..Len(y) |-> _yj_trans_single_x(y[i], lam)]

\* the body of the loop of _yj_inv_transform_y: the case taken and the value
\* appended for one element x of y
_yj_inv_single_case(x, lam) ==
  IF lam # Q0 /\ GE0(x) THEN "pos_power"
  ELSE IF lam = Q0 /\ GE0(x) THEN "pos_exp"
  ELSE IF lam # Q2 /\ LT0(x) THEN "neg_power"
  ELSE "neg_exp"

\* the power case of the non-negative values without its final "- 1"
_yj_inv_single_unshifted(x, lam) ==
  IF lam # Q0 /\ GE0(x)
  THEN Pow(Add(Mul(x, lam), Q1), Div(Q1, lam))
  ELSE IF lam = Q0 /\ GE0(x)
  THEN Sub(Exp(x), Q1)
  ELSE IF lam # Q2 /\ LT0(x)
  THEN LET nmr == Add(Neg(Mul(x, Sub(Q2, lam))), Q1)
       IN  Sub(Neg(Pow(nmr, Div(Q1, Sub(Q2, lam)))), Q1)
  ELSE LET p_log == Neg(x)
       IN  Neg(Sub(Exp(p_log), Q1))

\* the cases chosen within ZERO of 0 and of 2, as a tolerance would choose them
_yj_inv_single_tolerant(x, lam) ==
  IF ~LE(Abs(lam), ZERO) /\ GE0(x)
  THEN Sub(Pow(Add(Mul(x, lam), Q1), Div(Q1, lam)), Q1)
  ELSE IF LE(Abs(lam), ZERO) /\ GE0(x)
  THEN Sub(Exp(x), Q1)
  ELSE IF ~LE(Abs(Sub(lam, Q2)), ZERO) /\ LT0(x)
  THEN LET nmr == Add(Neg(Mul(x, Sub(Q2, lam))), Q1)
       IN  Sub(Neg(Pow(nmr, Div(Q1, Sub(Q2, lam)))), Q1)
  ELSE LET p_log == Neg(x)
       IN  Neg(Sub(Exp(p_log), Q1))

_yj_inv_single(x, lam) ==
  IF lam # Q0 /\ GE0(x)
  THEN Sub(Pow(Add(Mul(x, lam), Q1), Div(Q1, lam)), Q1)
  ELSE IF lam = Q0 /\ GE0(x)
  THEN Sub(Exp(x), Q1)
  ELSE IF lam # Q2 /\ LT0(x)
  THEN LET nmr == Add(Neg(Mul(x, Sub(Q2, lam))), Q1)
       IN  Sub(Neg(Pow(nmr, Div(Q1, Sub(Q2, lam)))), Q1)
  ELSE LET p_log == Neg(x)
       IN  Neg(Sub(Exp(p_log), Q1))

_yj_inv_transform_y(y, lam) == [i \in 1..Len(y) |-> _yj_inv_single(y[i], lam)]

\* ------------------------------------------- the log-likelihood evaluator

\* a number in thousandths, rounded down: the scale on which variances and
\* scores are computed and compared
RECURSIVE Num(_)
Num(v) ==
  CASE v.k = "q" -> (1000 * v.n) \div v.d
    [] v.k = "ln" -> LnInt(v.a.n) - LnInt(v.a.d)
    [] IsOp(v, "add") -> Num(v.a) + Num(v.b)
    [] IsOp(v, "sub") -> Num(v.a) - Num(v.b)
    [] IsOp(v, "neg") -> -Num(v.a)

RECURSIVE SumInt(_)
SumInt(s) == IF s = <<>> THEN 0 ELSE Head(s) + SumInt(Tail(s))

\* numpy.min of a non-empty vector
RECURSIVE MinFrom(_, _, _)
MinFrom(s, i, m) ==
  IF i > Len(s) THEN m
  ELSE MinFrom(s, i + 1, IF Num(s[i]) < Num(m) THEN s[i] ELSE m)

np_min(s) == MinFrom(s, 2, s[1])

\* a score: a float in thousandths, or NaN
Score(v) == [nan |-> FALSE, v |-> v]
ScoreNaN == [nan |-> TRUE, v |-> 0]

\* the vector v after "if min < ZERO: v += abs(min) + 1", min = numpy.min(v)
shift_up(v, min_v) ==
  IF LT(min_v, ZERO)
  THEN [i \in 1..Len(v) |-> Add(v[i], Add(Abs(min_v), Q1))]
  ELSE v

\* numpy.sum((y - y_mean)**2. / N), y in thousandths, the result in millionths
variance(yn, y_mean) ==
  SumInt([i \in 1..Len(yn) |-> ((yn[i] - y_mean) * (yn[i] - y_mean)) \div Len(yn)])

\* (lmb - 1) * numpy.sum(numpy.log(data)) - N / 2.0 * numpy.log(var), or NaN
\* when 0 == var
llf_value(data, lmb, var) ==
  IF 0 = var THEN ScoreNaN
  ELSE Score(((Num(lmb) - 1000) * SumInt([i \in 1..Len(data) |-> Num(Ln(data[i]))]))
               \div 1000
             - (Len(data) * (LnInt(var) - LnInt(1000000))) \div 2)

\* The floats of y_mean and var.  numpy.mean(y) is fl(fl(sum) / N): for N
\* equal values v it is v itself when N is a power of two (the sum and the
\* quotient are exact) and otherwise v or a neighbour of v, by the bits of v
\* (mean([2/3, 2/3, 2/3]) is not 2/3).  The numbers here do not carry those
\* bits, so the square of the error of the mean, which is what var then is,
\* is a choice: 0, or 1 for a positive number below every other variance.
IsPowerOfTwo(n) == n \in {1, 2, 4, 8}

mean_roundings(y) ==
  IF Len(y) > 0 /\ (\A i \in 1..Len(y) : y[i] = y[1]) /\ ~IsPowerOfTwo(Len(y))
  THEN {0, 1}
  ELSE {0}

\* var, in millionths
var_of(yn, delta2) == variance(yn, SumInt(yn) \div Len(yn)) + delta2

llf_of(data, lmb, yn, delta2) == llf_value(data, lmb, var_of(yn, delta2))

\* data and y are the two vectors after their shifts
llf_shifted(data, lmb, y, delta2) ==
  [raised |-> FALSE, transformed |-> TRUE,
   llf |-> llf_of(data, lmb, [i \in 1..Len(y) |-> Num(y[i])], delta2),
   data |-> data, y |-> y,
   var |-> var_of([i \in 1..Len(y) |-> Num(y[i])], delta2)]

\* both vectors shifted when the minimum of data is below ZERO, by the shift
\* of data
llf_transformed_jointly(data, lmb, y, delta2) ==
  llf_shifted(shift_up(data, np_min(data)), lmb,
              IF LT(np_min(data), ZERO)
              THEN [i \in 1..Len(y) |-> Add(y[i], Add(Abs(np_min(data)), Q1))]
              ELSE y,
              delta2)

llf_transformed(data, lmb, y, delta2) ==
  llf_shifted(shift_up(data, np_min(data)), lmb, shift_up(y, np_min(y)), delta2)

\* _yj_llf(data, lmb): what the call does.  raised: the ValueError of an
\* empty sample; llf: the value returned; data: the array the caller passed,
\* as the call leaves it (numpy.asarray makes no copy of an ndarray and
\* data += shift adds in place)
\* the empty sample answered by NaN
_yj_llf_nan_on_empty(data, lmb, delta2) ==
  IF 0 = Len(data)
  THEN [raised |-> FALSE, transformed |-> FALSE, llf |-> ScoreNaN, data |-> data,
        y |-> <<>>, var |-> 0]
  ELSE llf_transformed(data, lmb, _yj_transform_y(data, lmb), delta2)

\* transformed: whether _yj_transform_y has been called; delta2: the square of
\* the rounding error of y_mean, one of mean_roundings(y)
_yj_llf_rounded(data, lmb, delta2) ==
  IF 0 = Len(data)
  THEN [raised |-> TRUE, transformed |-> FALSE, llf |-> ScoreNaN, data |-> data,
        y |-> <<>>, var |-> 0]
  ELSE llf_transformed(data, lmb, _yj_transform_y(data, lmb), delta2)

\* the evaluations of the estimator, the mean taken as the exact one (which
\* it is for samples of one, two or four values)
_yj_llf(data, lmb) == _yj_llf_rounded(data, lmb, 0)

\* ------------------------------------------------ the per-feature estimator

\* fu > fx on floats: False when either is NaN
ScoreGT(fu, fx) == ~fu.nan /\ ~fx.nan /\ fu.v > fx.v

\* the lambdas at which the minimiser evaluates its objective, in order: the
\* two ends of the bracket (-2, 2) first, then points between them
BrentPoints == <<I(-2), I(2), I(-1), I(0), I(1)>>

\* _eval_mle(lmb, data): -_yj_llf(data, lmb), with the array as the call
\* leaves it
_eval_mle(lmb, r) == [x |-> lmb, fx |-> [nan |-> r.llf.nan, v |-> -r.llf.v], data |-> r.data]

\* scipy.optimize.brent(_eval_mle, brack, args = (x,)) as a search over
\* BrentPoints: st = [x, fx, data], x the best point so far, fx the objective
\* there, data the array every evaluation receives.  A point u replaces x
\* unless fu > fx (scipy's update rule).
brent_update(st, ev) == IF ScoreGT(ev.fx, st.fx) THEN [st EXCEPT !.data = ev.data] ELSE ev

RECURSIVE BrentFrom(_, _)
BrentFrom(i, st) ==
  IF i > Len(BrentPoints) THEN st
  ELSE BrentFrom(i + 1, brent_update(st, _eval_mle(BrentPoints[i],
                                                     _yj_llf(st.data, BrentPoints[i]))))

optimize_brent(data) ==
  BrentFrom(2, _eval_mle(BrentPoints[1], _yj_llf(data, BrentPoints[1])))

\* _yj_normmax(x): .x is the value returned, .data the array x as the
\* evaluations leave it
_yj_normmax_run(x) == optimize_brent(x)

_yj_normmax(x) == _yj_normmax_run(x).x

_yj_estimate_lambda_single_y_run(y) == _yj_normmax_run(y)

_yj_estimate_lambda_single_y(y) == _yj_estimate_lambda_single_y_run(y).x

\* ------------------------------------------------------------- the bounds

\* matrices handed to fit, transform and inverse_transform have 1..MaxRows
\* rows and 1..MaxCols columns
MaxRows == 2
MaxCols == 2
\* the primitives are probed at the integers -MaxAbsX..MaxAbsX (and two
\* halves) with lambda among the integers -MaxLam..MaxLam (and two halves),
\* 0 and 2 offset by -MaxTick..MaxTick ticks, and NaN
MaxAbsX == 2
MaxLam == 3
MaxTick == 3
\* _yj_llf is called on the vectors of 0..MaxLen integers of -1..MaxAbsX
MaxLen == 3
\* the search has 1..MaxCand candidates, each with one score of 0..MaxScore
\* for every fold
MaxCand == 3
MaxScore == 1
\* the frames given to the selective decomposers have 1..MaxFrameCols columns
MaxFrameCols == 3

\* ----------------------------------------------------------- the matrices

\* A matrix is the sequence of its rows; it has at least one row and one
\* column.  <<>> stands for "no matrix".
NoMatrix == <<>>

n_samples_of(X) == Len(X)
n_features_of(X) == Len(X[1])

\* X.transpose(): the sequence of the columns of X
transpose(X) ==
  [j \in 1..n_features_of(X) |-> [i \in 1..n_samples_of(X) |-> X[i][j]]]

\* the sample values the input matrices are filled with, by kind of data:
\* positive measurements, values of both signs with a zero, one repeated
\* value, counts with zeros
Samples ==
  [positive |-> <<1, 2, 3, 1, 3>>,
   mixed    |-> <<-1, 0, 2, -2, 1>>,
   constant |-> <<2, 2, 2, 2, 2>>,
   counts   |-> <<0, 3, 1, 2, 0>>]

Kinds == {"positive", "mixed", "constant", "counts"}

Matrix(kind, r, c) ==
  [i \in 1..r |-> [j \in 1..c |-> I(Samples[kind][((i + 2 * j - 3) % 5) + 1])]]

Matrices == {Matrix(kind, r, c) : kind \in Kinds, r \in 1..MaxRows, c \in 1..MaxCols}

IsFinite(v) == v.k \notin {"nan", "inf"}

\* check_array with copy = False: the caller's array itself
check_array_no_copy(X) ==
  IF \A i \in 1..Len(X) : \A j \in 1..Len(X[i]) : IsFinite(X[i][j])
  THEN [ok |-> TRUE, array |-> X, copy |-> FALSE]
  ELSE [ok |-> FALSE, array |-> NoMatrix, copy |-> FALSE]

\* sklearn's check_array(X, copy = True, ensure_2d = True, dtype = FLOAT_DTYPES):
\* a float copy of X, or a ValueError when X holds NaN or an infinity
check_array(X) ==
  IF \A i \in 1..Len(X) : \A j \in 1..Len(X[i]) : IsFinite(X[i][j])
  THEN [ok |-> TRUE, array |-> X, copy |-> TRUE]
  ELSE [ok |-> FALSE, array |-> NoMatrix, copy |-> TRUE]

\* the check left out
check_is_fitted_skipped(has_lambda_) == TRUE

\* sklearn's check_is_fitted(self, 'lambda_'): passes when the attribute exists
check_is_fitted(has_lambda_) == has_lambda_

\* ------------------------------------------------------ the estimator object

VARIABLES
  n_jobs,    \* self.n_jobs
  fitted,    \* whether self has the attribute lambda_
  lambda_,   \* self.lambda_ (<<>> while the attribute does not exist)
  call,      \* the most recent call: its argument and its outcome
  fitX,      \* the matrix given to the most recent successful fit
  probe,     \* one application of the primitives to a scalar (SpecPrim)
  evaluation, \* one call of _yj_llf on a sample vector (SpecLlf)
  parallel,  \* the tasks of the fit that is running (SpecPar)
  search,    \* the cross-validated search object (SpecSearch)
  decomposer \* a SelectivePCA or SelectiveTruncatedSVD object (SpecDecomp)

vars == <<n_jobs, fitted, lambda_, call, fitX, probe, evaluation, parallel, search,
          decomposer>>

NJobs == {1, 2}

\* the outcome of a call.  status: "ok" or the exception raised; msg, n: its
\* message and the number it formats; out: the matrix returned (NoMatrix:
\* none); arg_after: the caller's matrix when the call ends; src: when arg is
\* the matrix the previous call, a transform, returned, that call's argument;
\* was: self.lambda_ when the call began (<<>>: no such attribute)
Outcome(op, arg, status, msg, n, out, arg_after, src, was) ==
  [op |-> op, arg |-> arg, status |-> status, msg |-> msg, n |-> n,
   out |-> out, arg_after |-> arg_after, src |-> src, was |-> was]

NoCall == Outcome("init", NoMatrix, "ok", "", 0, NoMatrix, NoMatrix, NoMatrix, <<>>)

ProbeIdle == [stage |-> "idle", x |-> None, lam |-> None, y |-> None, z |-> None]

EvaluationIdle == [stage |-> "idle"]

\* no fit is running; finished: the order in which the tasks of the last
\* fit have finished
NotRunning(stage, finished) ==
  [stage |-> stage, readonly |-> FALSE, finished |-> finished, tasks |-> <<>>]

ParallelIdle == NotRunning("idle", <<>>)

SearchIdle == [stage |-> "idle"]

DecomposerIdle == [stage |-> "idle"]

Init ==
  /\ n_jobs \in NJobs
  /\ fitted = FALSE
  /\ lambda_ = <<>>
  /\ call = NoCall
  /\ fitX = NoMatrix
  /\ probe = ProbeIdle
  /\ evaluation = EvaluationIdle
  /\ parallel = ParallelIdle
  /\ search = SearchIdle
  /\ decomposer = DecomposerIdle

\* n_samples <= 2
too_few_samples_inclusive(n_samples) == n_samples <= 2

\* n_samples < 2
too_few_samples(n_samples) == n_samples < 2

\* the results in the reverse of the order of the columns
Parallel_reversed(jobs, columns) ==
  [j \in 1..Len(columns) |->
     _yj_estimate_lambda_single_y_run(columns[Len(columns) + 1 - j])]

\* Parallel(n_jobs = self.n_jobs)(delayed(_yj_estimate_lambda_single_y)(y)
\* for y in columns): one task per column, each on the array it is given
\* (with one job the column view itself; with several, the worker's copy);
\* the final states of the tasks, in the order of the columns
Parallel(jobs, columns) ==
  [j \in 1..Len(columns) |-> _yj_estimate_lambda_single_y_run(columns[j])]

\* the lambdas of the tasks, and the array fit works on as the tasks leave it
fit_done(jobs, X, chk, tasks) ==
  [status |-> "ok", msg |-> "", n |-> 0,
   lambda_ |-> [j \in 1..Len(tasks) |-> tasks[j].x],
   arg_after |-> IF chk.copy THEN X
                 ELSE IF jobs = 1
                 THEN transpose([j \in 1..Len(tasks) |-> tasks[j].data])
                 ELSE chk.array]

fit_checked(jobs, X, chk) ==
  IF ~chk.ok
  THEN [status |-> "ValueError", msg |-> "Input contains NaN, infinity", n |-> 0,
        lambda_ |-> <<>>, arg_after |-> X]
  ELSE IF too_few_samples(n_samples_of(chk.array))
  THEN [status |-> "ValueError",
        msg |-> "n_samples should be at least two, but was %i",
        n |-> n_samples_of(chk.array), lambda_ |-> <<>>, arg_after |-> X]
  ELSE fit_done(jobs, X, chk, Parallel(jobs, transpose(chk.array)))

\* fit(X): the outcome, and the lambda_ it assigns
fit_run(jobs, X) == fit_checked(jobs, X, check_array(X))

\* fit writing its estimates into the lambda_ array it already has
fit_end_in_place(X, r) ==
  /\ call' = Outcome("fit", X, r.status, r.msg, r.n, NoMatrix, r.arg_after, NoMatrix,
                     lambda_)
  /\ IF r.status = "ok"
     THEN /\ fitted' = TRUE
          /\ lambda_' = r.lambda_ \o SubSeq(lambda_, Len(r.lambda_) + 1, Len(lambda_))
          /\ fitX' = X
     ELSE UNCHANGED <<fitted, lambda_, fitX>>
  /\ UNCHANGED <<n_jobs, probe, evaluation, parallel, search, decomposer>>

fit_end(X, r) ==
  /\ call' = Outcome("fit", X, r.status, r.msg, r.n, NoMatrix, r.arg_after, NoMatrix,
                     lambda_)
  /\ IF r.status = "ok"
     THEN fitted' = TRUE /\ lambda_' = r.lambda_ /\ fitX' = X
     ELSE UNCHANGED <<fitted, lambda_, fitX>>
  /\ UNCHANGED <<n_jobs, probe, evaluation, parallel, search, decomposer>>

\* fit_run over every estimator setting and input matrix, computed once
FitTable == [jobs \in NJobs |-> [X \in Matrices |-> fit_run(jobs, X)]]

fit(X) == fit_end(X, FitTable[n_jobs][X])

\* n_features > lambdas_.shape[0]
dim_mismatch_only_more(n_features, lambdas_) == n_features > Len(lambdas_)

\* not n_features == lambdas_.shape[0]
dim_mismatch(n_features, lambdas_) == ~(n_features = Len(lambdas_))

\* the call the method op makes for one column: transform calls
\* _yj_transform_y, inverse_transform calls _yj_inv_transform_y
per_column(op, column, lam) ==
  IF op = "transform" THEN _yj_transform_y(column, lam)
  ELSE _yj_inv_transform_y(column, lam)

\* every column through per_column with the first lambda
apply_columns_first_lambda(op, lambdas_, columns) ==
  transpose([i \in 1..Len(columns) |-> per_column(op, columns[i], lambdas_[1])])

\* the columns of X, each through per_column with its lambda, reassembled
apply_columns(op, lambdas_, columns) ==
  transpose([i \in 1..Len(columns) |-> per_column(op, columns[i], lambdas_[i])])

apply_checked(op, lambdas_, chk) ==
  IF ~chk.ok
  THEN [status |-> "ValueError", msg |-> "Input contains NaN, infinity", out |-> NoMatrix]
  ELSE IF dim_mismatch(n_features_of(chk.array), lambdas_)
  THEN [status |-> "ValueError", msg |-> "dim mismatch in n_features", out |-> NoMatrix]
  ELSE [status |-> "ok", msg |-> "",
        out |-> apply_columns(op, lambdas_, transpose(chk.array))]

\* the body shared by transform and inverse_transform
apply_run(op, has_lambda_, lambdas_, X) ==
  IF ~check_is_fitted(has_lambda_)
  THEN [status |-> "NotFittedError", msg |-> "", out |-> NoMatrix]
  ELSE apply_checked(op, lambdas_, check_array(X))

transform_run(has_lambda_, lambdas_, X) ==
  apply_run("transform", has_lambda_, lambdas_, X)

inverse_transform_run(has_lambda_, lambdas_, X) ==
  apply_run("inverse_transform", has_lambda_, lambdas_, X)

apply_end(op, X, r, src) ==
  /\ call' = Outcome(op, X, r.status, r.msg, 0, r.out, X, src, lambda_)
  /\ UNCHANGED <<n_jobs, fitted, lambda_, fitX, probe, evaluation, parallel, search, decomposer>>

\* transform that cuts self.lambda_ down to the columns it is given
transform_truncating(X) ==
  /\ call' = Outcome("transform", X, "ok", "", 0, NoMatrix, X, NoMatrix, lambda_)
  /\ lambda_' = IF n_features_of(X) < Len(lambda_)
                THEN SubSeq(lambda_, 1, n_features_of(X))
                ELSE lambda_
  /\ UNCHANGED <<n_jobs, fitted, fitX, probe, evaluation, parallel, search, decomposer>>

transform(X) == apply_end("transform", X, transform_run(fitted, lambda_, X), NoMatrix)

\* self.fit(X, y).transform(X, y): f is the outcome of the fit, t of the
\* transform that follows it
fit_then_transform(f, t) ==
  [status |-> t.status, msg |-> t.msg, n |-> 0, out |-> t.out,
   lambda_ |-> f.lambda_, arg_after |-> f.arg_after, fit_ok |-> TRUE]

\* fit_transform(X): an exception of fit ends the call; otherwise transform
\* runs on the estimator fit has left, with the caller's X as fit has left it
fit_transform_run(jobs, X, f) ==
  IF f.status # "ok"
  THEN [status |-> f.status, msg |-> f.msg, n |-> f.n, out |-> NoMatrix,
        lambda_ |-> <<>>, arg_after |-> f.arg_after, fit_ok |-> FALSE]
  ELSE fit_then_transform(f, transform_run(TRUE, f.lambda_, f.arg_after))

\* fit_transform_run over every estimator setting and input matrix, computed once
FitTransformTable ==
  [jobs \in NJobs |-> [X \in Matrices |-> fit_transform_run(jobs, X, FitTable[jobs][X])]]

\* fit_transform that leaves self as it found it
fit_transform_end_on_clone(X, r) ==
  /\ call' = Outcome("fit_transform", X, r.status, r.msg, r.n, r.out, r.arg_after,
                     NoMatrix, lambda_)
  /\ UNCHANGED <<n_jobs, fitted, lambda_, fitX, probe, evaluation, parallel, search, decomposer>>

fit_transform_end(X, r) ==
  /\ call' = Outcome("fit_transform", X, r.status, r.msg, r.n, r.out, r.arg_after,
                     NoMatrix, lambda_)
  /\ IF r.fit_ok
     THEN fitted' = TRUE /\ lambda_' = r.lambda_ /\ fitX' = X
     ELSE UNCHANGED <<fitted, lambda_, fitX>>
  /\ UNCHANGED <<n_jobs, probe, evaluation, parallel, search, decomposer>>

fit_transform(X) == fit_transform_end(X, FitTransformTable[n_jobs][X])

\* the matrix the previous call returned, when that call transformed its
\* argument
LastTransformed ==
  IF call.op \in {"transform", "fit_transform"} /\ call.status = "ok"
  THEN {call.out} ELSE {}

inverse_transform(X) ==
  apply_end("inverse_transform", X, inverse_transform_run(fitted, lambda_, X),
            IF X \in LastTransformed THEN call.arg ELSE NoMatrix)

Next ==
  \/ \E X \in Matrices : fit(X)
  \/ \E X \in Matrices : fit_transform(X)
  \/ \E X \in Matrices : transform(X)
  \/ \E X \in Matrices \cup LastTransformed : inverse_transform(X)

Spec == Init /\ [][Next]_vars

\* ------------------------------------- the primitives applied to one scalar

Ticks == (-MaxTick)..MaxTick

ProbeX == {I(n) : n \in (-MaxAbsX)..MaxAbsX} \cup {QQ(1, 2), QQ(-1, 2)}

ProbeLam ==
  {I(n) : n \in (-MaxLam)..MaxLam} \cup {QQ(1, 2), QQ(-1, 2), NaN}
    \cup {QE(0, 1, e) : e \in Ticks} \cup {QE(2, 1, e) : e \in Ticks}

InitPrim ==
  /\ n_jobs = 1
  /\ fitted = FALSE
  /\ lambda_ = <<>>
  /\ call = NoCall
  /\ fitX = NoMatrix
  /\ evaluation = EvaluationIdle
  /\ parallel = ParallelIdle
  /\ search = SearchIdle
  /\ decomposer = DecomposerIdle
  /\ probe \in {[stage |-> "input", x |-> x, lam |-> lam, y |-> None, z |-> None] :
                  x \in ProbeX, lam \in ProbeLam}

\* y = _yj_transform_y([x], lam)
Forward ==
  /\ probe.stage = "input"
  /\ probe' = [probe EXCEPT !.stage = "forward",
                            !.y = _yj_transform_y(<<probe.x>>, probe.lam)[1]]
  /\ UNCHANGED <<n_jobs, fitted, lambda_, call, fitX, evaluation, parallel, search, decomposer>>

\* z = _yj_inv_transform_y([y], lam) on the value the forward rule returned
\* (inverse_transform passes the primitive finite values only)
InverseOfForward ==
  /\ probe.stage = "forward"
  /\ IsFinite(probe.y)
  /\ probe' = [probe EXCEPT !.stage = "roundtrip",
                            !.z = _yj_inv_transform_y(<<probe.y>>, probe.lam)[1]]
  /\ UNCHANGED <<n_jobs, fitted, lambda_, call, fitX, evaluation, parallel, search, decomposer>>

\* z = _yj_inv_transform_y([y], lam) on y = x, any value
Inverse ==
  /\ probe.stage = "input"
  /\ probe' = [probe EXCEPT !.stage = "inverse", !.y = probe.x,
                            !.z = _yj_inv_transform_y(<<probe.x>>, probe.lam)[1]]
  /\ UNCHANGED <<n_jobs, fitted, lambda_, call, fitX, evaluation, parallel, search, decomposer>>

NextPrim == Forward \/ InverseOfForward \/ Inverse

SpecPrim == InitPrim /\ [][NextPrim]_vars

\* ------------------------------------------ one call of the log-likelihood

LlfValues == {I(n) : n \in (-1)..MaxAbsX}

LlfVectors == UNION {[1..n -> LlfValues] : n \in 0..MaxLen}

\* the lambdas at which the estimator calls _yj_llf
LlfLambdas == {BrentPoints[i] : i \in 1..Len(BrentPoints)}

InitLlf ==
  /\ n_jobs = 1
  /\ fitted = FALSE
  /\ lambda_ = <<>>
  /\ call = NoCall
  /\ fitX = NoMatrix
  /\ probe = ProbeIdle
  /\ parallel = ParallelIdle
  /\ search = SearchIdle
  /\ decomposer = DecomposerIdle
  /\ evaluation \in {[stage |-> "input", data |-> data, lmb |-> lmb] :
                       data \in LlfVectors, lmb \in LlfLambdas}

\* the call ended: data and lmb as passed, delta2 the rounding of the mean
\* that occurred, r what _yj_llf did
evaluation_done(data, lmb, delta2, r) ==
  [stage |-> "done", data |-> data, lmb |-> lmb, delta2 |-> delta2,
   raised |-> r.raised, transformed |-> r.transformed, llf |-> r.llf,
   data_after |-> r.data, y_after |-> r.y, var |-> r.var]

\* _yj_llf(data, lmb), data an ndarray of floats
Evaluate ==
  /\ evaluation.stage = "input"
  /\ \E delta2 \in mean_roundings(_yj_transform_y(evaluation.data, evaluation.lmb)) :
       evaluation' = evaluation_done(evaluation.data, evaluation.lmb, delta2,
                       _yj_llf_rounded(evaluation.data, evaluation.lmb, delta2))
  /\ UNCHANGED <<n_jobs, fitted, lambda_, call, fitX, probe, parallel, search, decomposer>>

\* the second call ended: r what it did
evaluation_again(r) ==
  [evaluation EXCEPT !.stage = "again"] @@ [llf_again |-> r.llf, data_again |-> r.data]

\* the roundings of the mean that can occur in a second call: the one that
\* occurred when the call has the values of the first
roundings_again(y) ==
  IF evaluation.data_after = evaluation.data THEN {evaluation.delta2}
  ELSE mean_roundings(y)

\* _yj_llf(data, lmb) once more, with the array and the lambda of the call
\* that has ended
EvaluateAgain ==
  /\ evaluation.stage = "done"
  /\ \E delta2 \in roundings_again(_yj_transform_y(evaluation.data_after, evaluation.lmb)) :
       evaluation' = evaluation_again(
                       _yj_llf_rounded(evaluation.data_after, evaluation.lmb, delta2))
  /\ UNCHANGED <<n_jobs, fitted, lambda_, call, fitX, probe, parallel, search, decomposer>>

NextLlf == Evaluate \/ EvaluateAgain

SpecLlf == InitLlf /\ [][NextLlf]_vars

\* ------------------------------------------- fit, one evaluation at a time

\* A task is one call _yj_estimate_lambda_single_y(y): i the index in
\* BrentPoints of its next evaluation, x and fx the best point so far, data
\* the array y it works on.  With one job the tasks run in the caller, one
\* after the other, each on its column of the array fit has copied; with
\* several jobs each worker has its own array: a copy, or, for an array above
\* Parallel's max_nbytes, a memory map opened read-only (mmap_mode = 'r').
NewTask(column) == [i |-> 1, x |-> None, fx |-> ScoreNaN, data |-> column]

started(t) == t.i > 1

done(t) == t.i > Len(BrentPoints)

\* the task after the evaluation ev
task_after(t, ev) ==
  IF t.i = 1
  THEN [i |-> 2, x |-> ev.x, fx |-> ev.fx, data |-> ev.data]
  ELSE IF ScoreGT(ev.fx, t.fx)
  THEN [t EXCEPT !.i = t.i + 1, !.data = ev.data]
  ELSE [i |-> t.i + 1, x |-> ev.x, fx |-> ev.fx, data |-> ev.data]

task_step(t) ==
  task_after(t, _eval_mle(BrentPoints[t.i], _yj_llf(t.data, BrentPoints[t.i])))

\* every task's array being one and the same array
write_back_shared(tasks, j, t) ==
  [k \in 1..Len(tasks) |-> IF k = j THEN t ELSE [tasks[k] EXCEPT !.data = t.data]]

\* the evaluation of task j has written its own array, and only that
write_back(tasks, j, t) == [tasks EXCEPT ![j] = t]

\* the results in the order in which the tasks have finished
collect_as_completed(tasks, finished) ==
  [k \in 1..Len(finished) |-> tasks[finished[k]].x]

\* what Parallel(...)(...) returns: the results in the order of the tasks
collect(tasks, finished) == [j \in 1..Len(tasks) |-> tasks[j].x]

\* a worker is free for task j: fewer than n_jobs tasks before it are running
\* or waiting
dispatched(tasks, j) == Cardinality({k \in 1..(j - 1) : ~done(tasks[k])}) < n_jobs

\* "data += shift" on an array that is not writeable raises ValueError
shift_raises(readonly, data) == readonly /\ LT(np_min(data), ZERO)

InitPar == Init

Running == parallel.stage = "running"

\* fit(X) raising before any task exists
FitRejected(X) ==
  /\ ~Running
  /\ too_few_samples(n_samples_of(check_array(X).array))
  /\ call' = Outcome("fit", X, "ValueError",
                     "n_samples should be at least two, but was %i",
                     n_samples_of(check_array(X).array), NoMatrix, X, NoMatrix, lambda_)
  /\ parallel' = ParallelIdle
  /\ UNCHANGED <<n_jobs, fitted, lambda_, fitX, probe, evaluation, search, decomposer>>

\* fit(X) up to the call of Parallel: one task per column of the copy
FitDispatch(X, readonly) ==
  /\ ~Running
  /\ ~too_few_samples(n_samples_of(check_array(X).array))
  /\ readonly => n_jobs > 1
  /\ call' = Outcome("fit", X, "running", "", 0, NoMatrix, X, NoMatrix, lambda_)
  /\ parallel' = [stage |-> "running", readonly |-> readonly, finished |-> <<>>,
                  tasks |-> [j \in 1..n_features_of(X) |->
                               NewTask(transpose(check_array(X).array)[j])]]
  /\ UNCHANGED <<n_jobs, fitted, lambda_, fitX, probe, evaluation, search, decomposer>>

task_evaluated(j, t) ==
  /\ parallel' = [parallel EXCEPT
                    !.tasks = write_back(parallel.tasks, j, t),
                    !.finished = IF done(t) THEN Append(parallel.finished, j)
                                 ELSE parallel.finished]
  /\ UNCHANGED <<n_jobs, fitted, lambda_, call, fitX, probe, evaluation, search, decomposer>>

\* task j evaluates _yj_llf at its next point
TaskEvaluate(j) ==
  /\ Running
  /\ ~done(parallel.tasks[j])
  /\ dispatched(parallel.tasks, j)
  /\ ~shift_raises(parallel.readonly, parallel.tasks[j].data)
  /\ task_evaluated(j, task_step(parallel.tasks[j]))

\* fit keeping the results of the tasks that have finished when one raises
TaskRaise_keeps_partial(j) ==
  /\ Running
  /\ ~done(parallel.tasks[j])
  /\ dispatched(parallel.tasks, j)
  /\ shift_raises(parallel.readonly, parallel.tasks[j].data)
  /\ call' = [call EXCEPT !.status = "ValueError", !.msg = "output array is read-only"]
  /\ lambda_' = collect_as_completed(parallel.tasks, parallel.finished)
  /\ fitted' = TRUE
  /\ parallel' = NotRunning("failed", parallel.finished)
  /\ UNCHANGED <<n_jobs, fitX, probe, evaluation, search, decomposer>>

\* the evaluation of task j raises, Parallel raises in fit, fit raises
TaskRaise(j) ==
  /\ Running
  /\ ~done(parallel.tasks[j])
  /\ dispatched(parallel.tasks, j)
  /\ shift_raises(parallel.readonly, parallel.tasks[j].data)
  /\ call' = [call EXCEPT !.status = "ValueError", !.msg = "output array is read-only"]
  /\ parallel' = NotRunning("failed", parallel.finished)
  /\ UNCHANGED <<n_jobs, fitted, lambda_, fitX, probe, evaluation, search, decomposer>>

\* every task has returned: self.lambda_ = np.array(<the results>)
FitCollect ==
  /\ Running
  /\ \A j \in 1..Len(parallel.tasks) : done(parallel.tasks[j])
  /\ lambda_' = collect(parallel.tasks, parallel.finished)
  /\ fitted' = TRUE
  /\ call' = [call EXCEPT !.status = "ok"]
  /\ parallel' = NotRunning("collected", parallel.finished)
  /\ UNCHANGED <<n_jobs, fitX, probe, evaluation, search, decomposer>>

\* transform and inverse_transform between two fits
Apply(X) ==
  /\ ~Running
  /\ transform(X) \/ inverse_transform(X)

NextPar ==
  \/ \E X \in Matrices : FitRejected(X)
  \/ \E X \in Matrices : \E readonly \in BOOLEAN : FitDispatch(X, readonly)
  \/ \E j \in 1..MaxCols : j <= Len(parallel.tasks) /\ TaskEvaluate(j)
  \/ \E j \in 1..MaxCols : j <= Len(parallel.tasks) /\ TaskRaise(j)
  \/ FitCollect
  \/ \E X \in Matrices : Apply(X)

SpecPar == InitPar /\ [][NextPar]_vars

\* ------------------------------------------- the cross-validated search

\* this_n_test_samples of the folds of cv, in the order of the folds
FoldSizes == <<1, 2>>

n_folds == Len(FoldSizes)

\* what _do_fit returns for the scores given: one (score, n_test_samples,
\* parameters) per candidate and fold, the folds of a candidate together,
\* the candidates in the order of parameter_iterable.  A candidate's
\* parameters are its position in that order.
DoFit(scores) ==
  [k \in 1..(Len(scores) * n_folds) |->
     [this_score |-> scores[((k - 1) \div n_folds) + 1][((k - 1) % n_folds) + 1],
      this_n_test_samples |-> FoldSizes[((k - 1) % n_folds) + 1],
      parameters |-> ((k - 1) \div n_folds) + 1]]

\* score and n_test_samples after the folds k..last of one candidate
RECURSIVE ScoreFrom(_, _, _, _, _)
ScoreFrom(out, iid, k, last, acc) ==
  IF k > last THEN acc
  ELSE ScoreFrom(out, iid, k + 1, last,
         [score |-> acc.score + (IF iid
                                 THEN out[k].this_score * out[k].this_n_test_samples
                                 ELSE out[k].this_score),
          n_test_samples |-> acc.n_test_samples
                               + (IF iid THEN out[k].this_n_test_samples ELSE 0)])

\* score /= float(n_test_samples) or score /= float(n_folds)
mean_of(iid, acc) ==
  IF iid THEN Div(I(acc.score), I(acc.n_test_samples))
  ELSE Div(I(acc.score), I(n_folds))

\* all_scores: the scores of the folds k..last of one candidate, in the
\* order of out
RECURSIVE AllScoresFrom(_, _, _, _)
AllScoresFrom(out, k, last, acc) ==
  IF k > last THEN acc
  ELSE AllScoresFrom(out, k + 1, last, Append(acc, out[k].this_score))

\* grid_scores from slices of out that start one result after one another
grid_scores_of_overlapping(out, iid) ==
  [g \in 1..(Len(out) \div n_folds) |->
     [parameters |-> out[g * n_folds].parameters,
      mean_validation_score |->
        mean_of(iid, ScoreFrom(out, iid, g, g + n_folds - 1,
                               [score |-> 0, n_test_samples |-> 0])),
      cv_validation_scores |-> AllScoresFrom(out, g, g + n_folds - 1, <<>>)]]

\* grid_scores: one _CVScoreTuple per candidate
grid_scores_of(out, iid) ==
  [g \in 1..(Len(out) \div n_folds) |->
     [parameters |-> out[g * n_folds].parameters,
      mean_validation_score |->
        mean_of(iid, ScoreFrom(out, iid, (g - 1) * n_folds + 1, g * n_folds,
                               [score |-> 0, n_test_samples |-> 0])),
      cv_validation_scores |->
        AllScoresFrom(out, (g - 1) * n_folds + 1, g * n_folds, <<>>)]]

Reversed(s) == [i \in 1..Len(s) |-> s[Len(s) + 1 - i]]

\* a sort that puts an element before the elements equal to it
RECURSIVE InsertBeforeEqual(_, _)
InsertBeforeEqual(s, x) ==
  IF s = <<>> THEN <<x>>
  ELSE IF LE(x.mean_validation_score, Head(s).mean_validation_score)
  THEN <<x>> \o s
  ELSE <<Head(s)>> \o InsertBeforeEqual(Tail(s), x)

\* x into the ascending sequence s, after the elements equal to it (the sort
\* is stable)
RECURSIVE Insert(_, _)
Insert(s, x) ==
  IF s = <<>> THEN <<x>>
  ELSE IF LT(x.mean_validation_score, Head(s).mean_validation_score)
  THEN <<x>> \o s
  ELSE <<Head(s)>> \o Insert(Tail(s), x)

RECURSIVE SortedFrom(_, _, _)
SortedFrom(s, k, acc) ==
  IF k > Len(s) THEN acc ELSE SortedFrom(s, k + 1, Insert(acc, s[k]))

\* sorted(s, key = lambda x: x.mean_validation_score, reverse = True): the
\* reversed list, sorted ascending and stable, reversed
sorted_reverse(s) == Reversed(SortedFrom(Reversed(s), 1, <<>>))

\* an estimator: its parameters and the samples it was fitted on (none when
\* it is not fitted)
Estimator(params) == [params |-> params, fitted_on |-> {}]

clone(e) == Estimator(e.params)

set_params(e, params) == [e EXCEPT !.params = params]

estimator_fit(e, samples) == [e EXCEPT !.fitted_on = samples]

\* the samples of X: the folds of cv partition them
AllSamples == 1..(FoldSizes[1] + FoldSizes[2])

\* what the last call on the search object did
SearchResult(op, status, by) == [op |-> op, status |-> status, by |-> by]

ScoreLists == [1..n_folds -> 0..MaxScore]

\* the search object after __init__: attrs are the names of the attributes
\* that fit sets; an attribute not in attrs does not exist, whatever its
\* field holds
SearchObject(iid, refit, scores) ==
  [stage |-> "input", iid |-> iid, refit |-> refit, scores |-> scores,
   estimator |-> Estimator(0),
   attrs |-> {},
   grid_scores_ |-> <<>>, best_params_ |-> 0, best_score_ |-> Q0,
   best_estimator_ |-> Estimator(0),
   result |-> SearchResult("__init__", "ok", Estimator(0))]

InitSearch ==
  /\ n_jobs = 1
  /\ fitted = FALSE
  /\ lambda_ = <<>>
  /\ call = NoCall
  /\ fitX = NoMatrix
  /\ probe = ProbeIdle
  /\ evaluation = EvaluationIdle
  /\ parallel = ParallelIdle
  /\ decomposer = DecomposerIdle
  /\ search \in {SearchObject(iid, refit, scores) :
                   iid \in BOOLEAN, refit \in BOOLEAN,
                   scores \in UNION {[1..n -> ScoreLists] : n \in 1..MaxCand}}

search_done(grid_scores, best) ==
  [search EXCEPT !.stage = "done",
                 !.attrs = @ \cup {"grid_scores_", "best_params_", "best_score_"},
                 !.grid_scores_ = grid_scores,
                 !.best_params_ = best.parameters,
                 !.best_score_ = best.mean_validation_score,
                 !.result = SearchResult("fit", "ok", Estimator(0))]

search_sorted(grid_scores) == search_done(grid_scores, sorted_reverse(grid_scores)[1])

\* if self.refit: the clone of the base estimator with the best parameters,
\* fitted on the whole of X, becomes best_estimator_, and the estimator that
\* was given to the search stays as it is.  Nothing is done otherwise: a
\* best_estimator_ that exists is kept.
refit(s) ==
  IF s.refit
  THEN [s EXCEPT !.attrs = @ \cup {"best_estimator_"},
                 !.best_estimator_ =
                   estimator_fit(set_params(clone(clone(s.estimator)), s.best_params_),
                                 AllSamples)]
  ELSE s

\* _fit(X, y, parameter_iterable), the scores of the fits being search.scores
SearchFit ==
  /\ search' = refit(search_sorted(grid_scores_of(DoFit(search.scores), search.iid)))
  /\ UNCHANGED <<n_jobs, fitted, lambda_, call, fitX, probe, evaluation, parallel, decomposer>>

\* predict(X): self.best_estimator_.predict(X), an AttributeError when the
\* object has no best_estimator_
SearchPredict ==
  /\ search' = [search EXCEPT
                  !.stage = "predicted",
                  !.result = IF "best_estimator_" \in search.attrs
                             THEN SearchResult("predict", "ok", search.best_estimator_)
                             ELSE SearchResult("predict", "AttributeError", Estimator(0))]
  /\ UNCHANGED <<n_jobs, fitted, lambda_, call, fitX, probe, evaluation, parallel, decomposer>>

\* the constructor parameters are plain attributes (self.refit, self.iid):
\* set_params or an assignment gives them new values and touches nothing else
SearchSetParams(new_refit, new_iid) ==
  /\ <<new_refit, new_iid>> # <<search.refit, search.iid>>
  /\ search' = [search EXCEPT !.stage = "input", !.refit = new_refit, !.iid = new_iid,
                              !.result = SearchResult("set_params", "ok", Estimator(0))]
  /\ UNCHANGED <<n_jobs, fitted, lambda_, call, fitX, probe, evaluation, parallel, decomposer>>

NextSearch ==
  \/ SearchFit
  \/ SearchPredict
  \/ \E new_refit \in BOOLEAN, new_iid \in BOOLEAN : SearchSetParams(new_refit, new_iid)

SpecSearch == InitSearch /\ [][NextSearch]_vars

\* ----------------------------------------------- the selective decomposers

\* A frame is the sequence of its columns; a column is its name and the origin
\* of its values ("X": the caller's frame, "components": the array the
\* decomposition returned).
ColumnNames == <<"a", "b", "c", "d", "e">>

FrameNames == {ColumnNames[i] : i \in 1..MaxFrameCols}

IsInjective(s) == \A i, j \in 1..Len(s) : i # j => s[i] # s[j]

\* the column names of a frame, or a list of distinct column names
NameLists ==
  {s \in UNION {[1..n -> FrameNames] : n \in 1..MaxFrameCols} : IsInjective(s)}

FrameOf(names) == [i \in 1..Len(names) |-> [name |-> names[i], origin |-> "X"]]

Frames == {FrameOf(names) : names \in NameLists}

\* X.columns
columns_of(X) == [i \in 1..Len(X) |-> X[i].name]

NoFrame == <<>>

\* nm in names
name_in(nm, names) == \E i \in 1..Len(names) : names[i] = nm

\* the attribute the class keeps its decomposition in
attr_of(kind) == IF kind = "pca" THEN "pca_" ELSE "svd_"

\* the names of the component columns: 'PC%i' % (i + 1), 'Concept%i' % (i + 1)
PCNames == <<"PC1", "PC2", "PC3", "PC4", "PC5">>

ConceptNames == <<"Concept1", "Concept2", "Concept3", "Concept4", "Concept5">>

component_name(kind, i) == IF kind = "pca" THEN PCNames[i] ELSE ConceptNames[i]

\* the object PCA(...).fit(X[cols]) or TruncatedSVD(...).fit(X[cols]) returns:
\* the columns it was fitted on and the number k of components it keeps
Decomposition(kind, cols, k) == [kind |-> kind, cols |-> cols, k |-> k]

NoDecomposition == Decomposition("none", <<>>, 0)

\* the outcome of a call: out is what it returned; X is the frame given to
\* transform and X_after that frame when transform ends (NoFrame for the
\* other calls)
DecomposerResult(op, X, status, out, X_after) ==
  [op |-> op, X |-> X, status |-> status, out |-> out, X_after |-> X_after]

\* self.cols_: the cols given to __init__ (None, or a list of names) or, once
\* fit has replaced a missing cols, the pandas Index X.columns
Cols(type, names) == [type |-> type, names |-> names]

\* the object after __init__.  attrs: which of pca_ and svd_ exist; produced:
\* the object the last fit that returned has built (a history of the calls,
\* not an attribute).  stage: transform and get_decomposition assign nothing
\* to the object, so the calls that can follow them are the calls that can
\* follow the state they were made in, and a behaviour ends with them
\* ("returned").
DecomposerObject(kind, cols, as_df) ==
  [stage |-> "object", kind |-> kind, as_df |-> as_df, cols_ |-> cols,
   attrs |-> {}, pca_ |-> NoDecomposition, svd_ |-> NoDecomposition,
   produced |-> NoDecomposition,
   result |-> DecomposerResult("__init__", NoFrame, "ok", NoDecomposition, NoFrame)]

InitDecomp ==
  /\ n_jobs = 1
  /\ fitted = FALSE
  /\ lambda_ = <<>>
  /\ call = NoCall
  /\ fitX = NoMatrix
  /\ probe = ProbeIdle
  /\ evaluation = EvaluationIdle
  /\ parallel = ParallelIdle
  /\ search = SearchIdle
  /\ decomposer \in {DecomposerObject(kind, cols, as_df) :
                       kind \in {"pca", "svd"},
                       cols \in {Cols("none", <<>>)}
                                  \cup {Cols("list", names) : names \in NameLists},
                       as_df \in BOOLEAN}

\* not self.cols_: true of None and of an empty list; the truth value of a
\* pandas Index is an error
not_cols(cols) ==
  IF cols.type = "index" THEN "ValueError"
  ELSE IF cols.type = "none" \/ cols.names = <<>> THEN "true"
  ELSE "false"

\* X[cols] exists: every name of cols is a column of X
selectable(X, cols) == \A i \in 1..Len(cols) : name_in(cols[i], columns_of(X))

\* the decomposition of a first fit kept by the fits that follow
assign_decomposition_once(d, obj) ==
  IF d.attrs # {} THEN [d EXCEPT !.produced = obj]
  ELSE IF d.kind = "pca"
  THEN [d EXCEPT !.attrs = @ \cup {"pca_"}, !.pca_ = obj, !.produced = obj]
  ELSE [d EXCEPT !.attrs = @ \cup {"svd_"}, !.svd_ = obj, !.produced = obj]

\* self.pca_ = ... or self.svd_ = ...: the attribute of the class is assigned
assign_decomposition(d, obj) ==
  IF d.kind = "pca"
  THEN [d EXCEPT !.attrs = @ \cup {"pca_"}, !.pca_ = obj, !.produced = obj]
  ELSE [d EXCEPT !.attrs = @ \cup {"svd_"}, !.svd_ = obj, !.produced = obj]

\* fit from the assignment of self.cols_ on: d is the object with its cols_
decomposer_fitted(d, X, k) ==
  IF ~selectable(X, d.cols_.names)
  THEN [d EXCEPT !.result =
          DecomposerResult("fit", NoFrame, "KeyError", NoDecomposition, NoFrame)]
  ELSE [assign_decomposition(d, Decomposition(d.kind, d.cols_.names, k))
          EXCEPT !.result =
            DecomposerResult("fit", NoFrame, "ok", NoDecomposition, NoFrame)]

\* fit(X) of either class, X a DataFrame (validate_is_pd passes); k is the
\* number of components the library's decomposition keeps
decomposer_fit(d, X, k) ==
  IF not_cols(d.cols_) = "ValueError"
  THEN [d EXCEPT !.result =
          DecomposerResult("fit", NoFrame, "ValueError", NoDecomposition, NoFrame)]
  ELSE IF not_cols(d.cols_) = "true"
  THEN decomposer_fitted([d EXCEPT !.cols_ = Cols("index", columns_of(X))], X, k)
  ELSE decomposer_fitted(d, X, k)

\* the columns the fit decomposes
fit_cols(d, X) == IF not_cols(d.cols_) = "true" THEN columns_of(X) ELSE d.cols_.names

SelectiveFit(X, k) ==
  /\ decomposer.stage = "object"
  /\ k <= Len(fit_cols(decomposer, X))
  /\ decomposer' = decomposer_fit(decomposer, X, k)
  /\ UNCHANGED <<n_jobs, fitted, lambda_, call, fitX, probe, evaluation, parallel, search>>

\* every column of X as other
other_nms_all(X, cols) == columns_of(X)

\* other_nms = [nm for nm in X.columns if not nm in self.cols_]
other_nms(X, cols) ==
  SelectSeq(columns_of(X), LAMBDA nm : ~name_in(nm, cols))

\* X[names]: the columns of X with these names, in the order of names
select(X, names) ==
  [i \in 1..Len(names) |-> X[CHOOSE j \in 1..Len(X) : X[j].name = names[i]]]

\* left: the frame of the k component columns
left_of(kind, k) ==
  [i \in 1..k |-> [name |-> component_name(kind, i), origin |-> "components"]]

\* pd.concat([left, X[other_nms]], axis = 1), as a frame or as a matrix
concat(as_df, left, right) == [as_df |-> as_df, columns |-> left \o right]

decomposer_transform(d, X) ==
  IF attr_of(d.kind) \notin d.attrs
  THEN [d EXCEPT !.stage = "returned", !.result =
          DecomposerResult("transform", X, "NotFittedError", NoDecomposition, X)]
  ELSE IF ~selectable(X, d.cols_.names)
  THEN [d EXCEPT !.stage = "returned", !.result =
          DecomposerResult("transform", X, "KeyError", NoDecomposition, X)]
  ELSE [d EXCEPT !.stage = "returned", !.result =
          DecomposerResult("transform", X, "ok",
            concat(d.as_df,
                   left_of(d.kind, (IF d.kind = "pca" THEN d.pca_ ELSE d.svd_).k),
                   select(X, other_nms(X, d.cols_.names))),
            X)]

\* transform(X) of either class, X a DataFrame
SelectiveTransform(X) ==
  /\ decomposer.stage = "object"
  /\ decomposer' = decomposer_transform(decomposer, X)
  /\ UNCHANGED <<n_jobs, fitted, lambda_, call, fitX, probe, evaluation, parallel, search>>

\* get_decomposition(): pca_ when the object has one, else svd_ when it has
\* one, else a ValueError
get_decomposition(d) ==
  IF "pca_" \in d.attrs
  THEN DecomposerResult("get_decomposition", NoFrame, "ok", d.pca_, NoFrame)
  ELSE IF "svd_" \in d.attrs
  THEN DecomposerResult("get_decomposition", NoFrame, "ok", d.svd_, NoFrame)
  ELSE DecomposerResult("get_decomposition", NoFrame, "ValueError", NoDecomposition, NoFrame)

GetDecomposition ==
  /\ decomposer.stage = "object"
  /\ decomposer' = [decomposer EXCEPT !.stage = "returned",
                                      !.result = get_decomposition(decomposer)]
  /\ UNCHANGED <<n_jobs, fitted, lambda_, call, fitX, probe, evaluation, parallel, search>>

NextDecomp ==
  \/ \E X \in Frames : \E k \in 1..MaxFrameCols : SelectiveFit(X, k)
  \/ \E X \in Frames : SelectiveTransform(X)
  \/ GetDecomposition

SpecDecomp == InitDecomp /\ [][NextDecomp]_vars

\* ------------------------------------------------------------ the properties

Applying == {"transform", "inverse_transform"}

\* C1: transform and inverse_transform called on an estimator that has never
\* been successfully fit fail with a not-fitted error and return no output.
C1_NotFitted ==
  (~fitted /\ call.op \in Applying)
    => (call.status = "NotFittedError" /\ call.out = NoMatrix)

C1_Witness ==
  /\ ~fitted
  /\ call.op = "inverse_transform"
  /\ call.status = "NotFittedError"
  /\ call.out = NoMatrix

\* C2: on a fitted estimator, transform and inverse_transform of a finite
\* matrix fail with the dimension-mismatch error, returning no output, when and
\* only when the number of columns of the matrix differs from the length of
\* the fitted lambda vector.
C2_DimMismatch ==
  (fitted /\ call.op \in Applying /\ check_array(call.arg).ok)
    => IF Len(call.arg[1]) # Len(lambda_)
       THEN /\ call.status = "ValueError"
            /\ call.msg = "dim mismatch in n_features"
            /\ call.out = NoMatrix
       ELSE /\ call.status = "ok"
            /\ call.out # NoMatrix

C2_Witness ==
  /\ fitted
  /\ call.op = "transform"
  /\ Len(call.arg[1]) < Len(lambda_)
  /\ call.status = "ValueError"
  /\ call.msg = "dim mismatch in n_features"

\* C3: fit of a finite matrix with fewer than two rows fails with an error
\* that names the number of rows, and fit of a matrix with exactly two rows
\* (or more) succeeds and leaves the estimator fitted on that matrix.
C3_TooFewSamples ==
  (call.op = "fit" /\ check_array(call.arg).ok)
    => IF Len(call.arg) < 2
       THEN /\ call.status = "ValueError"
            /\ call.msg = "n_samples should be at least two, but was %i"
            /\ call.n = Len(call.arg)
       ELSE /\ call.status = "ok"
            /\ fitted
            /\ fitX = call.arg
            /\ Len(lambda_) = Len(call.arg[1])

C3_Witness ==
  /\ call.op = "fit"
  /\ Len(call.arg) = 1
  /\ call.status = "ValueError"
  /\ call.n = 1
  /\ fitted

\* lam is a number with |lam| <= 1e-12
InBandOf0(lam) == lam.k = "q" /\ lam.n = 0 /\ lam.e >= -2 /\ lam.e <= 2

\* lam is a number with |lam - 2| <= 1e-12
InBandOf2(lam) == lam.k = "q" /\ lam.n = 2 * lam.d /\ lam.e >= -2 /\ lam.e <= 2

\* the four cases of the forward rule
PosPower(x, lam) == Div(Sub(Pow(Add(x, Q1), lam), Q1), lam)
PosLog(x) == Ln(Add(x, Q1))
NegPower(x, lam) == Div(Neg(Sub(Pow(Add(Neg(x), Q1), Sub(Q2, lam)), Q1)), Sub(Q2, lam))
NegLog(x) == Neg(Ln(Add(Neg(x), Q1)))

\* the four cases of the inverse rule
InvPosPower(y, lam) == Sub(Pow(Add(Mul(y, lam), Q1), Div(Q1, lam)), Q1)
InvPosExp(y) == Sub(Exp(y), Q1)
InvNegPower(y, lam) ==
  Sub(Neg(Pow(Add(Neg(Mul(y, Sub(Q2, lam))), Q1), Div(Q1, Sub(Q2, lam)))), Q1)
InvNegExp(y) == Neg(Sub(Exp(Neg(y)), Q1))

\* C4: for x >= 0 and a lambda outside the 1e-12 band around 0, the forward
\* output is >= 0, the forward and the inverse rule both take their power
\* case for non-negative values, and the inverse of the forward output is x.
C4_RoundTripNonNegative ==
  (probe.stage = "roundtrip" /\ GE0(probe.x)
     /\ probe.lam.k = "q" /\ ~InBandOf0(probe.lam))
    => /\ GE0(probe.y)
       /\ probe.y = PosPower(probe.x, probe.lam)
       /\ _yj_inv_single_case(probe.y, probe.lam) = "pos_power"
       /\ probe.z = probe.x

C4_Witness ==
  /\ probe.stage = "roundtrip"
  /\ probe.x = I(2)
  /\ probe.lam = QE(0, 1, 3)
  /\ probe.y # probe.x
  /\ probe.z = probe.x

\* the entries of a matrix are all >= 0
AllNonNegative(X) == \A i \in 1..Len(X) : \A j \in 1..Len(X[i]) : GE0(X[i][j])

\* C4, end to end: inverse_transform of what transform returned for a matrix
\* without negative entries returns that matrix.
C4_EndToEnd ==
  (call.op = "inverse_transform" /\ call.status = "ok"
     /\ call.src # NoMatrix /\ AllNonNegative(call.src))
    => call.out = call.src

C4_EndToEndWitness ==
  /\ call.op = "inverse_transform"
  /\ call.status = "ok"
  /\ call.src # NoMatrix
  /\ AllNonNegative(call.src)
  /\ call.arg # call.src
  /\ call.out = call.src

\* C5: inverse_transform of what transform returned for a matrix X returns X,
\* for every fitted lambda and every X, negative entries included.
C5_InverseRestores ==
  (call.op = "inverse_transform" /\ call.status = "ok" /\ call.src # NoMatrix)
    => call.out = call.src

\* C6: for x < 0 the forward rule gives -ln(-x+1) when lambda is within 1e-12
\* of 2 and -(((-x+1)^(2-lambda)) - 1)/(2-lambda) for every other lambda.
C6_NegativeForwardCases ==
  (probe.stage = "forward" /\ LT0(probe.x) /\ probe.lam.k = "q")
    => IF InBandOf2(probe.lam)
       THEN probe.y = NegLog(probe.x)
       ELSE probe.y = NegPower(probe.x, probe.lam)

\* C7: for x >= 0 the forward rule gives ln(x+1) exactly when |lambda| <= 1e-12
\* and ((x+1)^lambda - 1)/lambda otherwise, so the power case is never taken
\* with a lambda of magnitude at most 1e-12.
C7_NonNegativeForwardCases ==
  (probe.stage = "forward" /\ GE0(probe.x))
    => /\ IF InBandOf0(probe.lam)
          THEN probe.y = PosLog(probe.x)
          ELSE probe.y = PosPower(probe.x, probe.lam)
       /\ (_yj_trans_single_x_case(probe.x, probe.lam) = "pos_log")
            <=> InBandOf0(probe.lam)
       /\ (_yj_trans_single_x_case(probe.x, probe.lam) = "pos_power")
            <=> ~InBandOf0(probe.lam)

C7_Witness ==
  /\ probe.stage = "forward"
  /\ probe.x = I(1)
  /\ probe.lam = QE(0, 1, -2)
  /\ probe.y = PosLog(probe.x)
  /\ probe.y # PosPower(probe.x, probe.lam)

\* the conditions of the four cases of the inverse rule, in its order
InvCond(c, y, lam) ==
  CASE c = 1 -> GE0(y) /\ lam # Q0
    [] c = 2 -> GE0(y) /\ lam = Q0
    [] c = 3 -> LT0(y) /\ lam # Q2
    [] c = 4 -> LT0(y) /\ lam = Q2

\* C8: the inverse rule picks its case by the sign of the transformed value y
\* and by exact equality of lambda with 0 and with 2, exactly one of the four
\* conditions holds for every (y, lambda), and the result is that case's value.
C8_InverseCases ==
  (probe.stage = "inverse")
    => /\ Cardinality({c \in 1..4 : InvCond(c, probe.y, probe.lam)}) = 1
       /\ InvCond(1, probe.y, probe.lam) => probe.z = InvPosPower(probe.y, probe.lam)
       /\ InvCond(2, probe.y, probe.lam) => probe.z = InvPosExp(probe.y)
       /\ InvCond(3, probe.y, probe.lam) => probe.z = InvNegPower(probe.y, probe.lam)
       /\ InvCond(4, probe.y, probe.lam) => probe.z = InvNegExp(probe.y)

C8_Witness ==
  /\ probe.stage = "inverse"
  /\ probe.y = I(-1)
  /\ probe.lam = QE(2, 1, 1)
  /\ probe.z = InvNegPower(probe.y, probe.lam)
  /\ probe.z # InvNegExp(probe.y)

\* column j of the matrix X
Column(X, j) == [i \in 1..Len(X) |-> X[i][j]]

\* C9: whenever the estimator is fitted, whatever calls came before, lambda_
\* has one entry per column of the matrix of the most recent successful fit,
\* and entry j is the estimate computed from column j of that matrix.
C9_LambdaPerColumn ==
  fitted
    => /\ fitX # NoMatrix
       /\ Len(lambda_) = Len(fitX[1])
       /\ \A j \in 1..Len(lambda_) :
            lambda_[j] = _yj_estimate_lambda_single_y(Column(fitX, j))

C9_Witness ==
  /\ fitted
  /\ call.op = "inverse_transform"
  /\ Len(lambda_) = 2
  /\ lambda_[1] # lambda_[2]
  /\ lambda_[1] = _yj_estimate_lambda_single_y(Column(fitX, 1))

\* C10: a transform or inverse_transform call, whether it succeeds or fails,
\* leaves lambda_ and the fitted status as they were; a step that changes
\* either is a fit (alone, or as the first half of fit_transform).
C10_ApplyingKeepsLambda ==
  [][/\ call'.op \in Applying => (lambda_' = lambda_ /\ fitted' = fitted)
     /\ (lambda_' # lambda_ \/ fitted' # fitted)
          => call'.op \in {"fit", "fit_transform"}]_vars

C10_Witness ==
  /\ fitted
  /\ call.op = "inverse_transform"
  /\ call.status = "ValueError"
  /\ Len(lambda_) = Len(fitX[1])

\* C11: a successful fit(X) leaves the estimator with the lambda vector a
\* fresh estimator gets from fit(X), whatever vector it held before, also
\* one of another length.
C11_FitOverwrites ==
  (call.op = "fit" /\ call.status = "ok")
    => /\ lambda_ = fit_run(n_jobs, call.arg).lambda_
       /\ Len(lambda_) = Len(call.arg[1])

C11_Witness ==
  /\ call.op = "fit"
  /\ call.status = "ok"
  /\ Len(call.was) > Len(call.arg[1])
  /\ lambda_ = fit_run(n_jobs, call.arg).lambda_
  /\ lambda_ # SubSeq(call.was, 1, Len(lambda_))

\* the forward or the inverse rule, by the method that applies it
Primitive(op, x, lam) ==
  IF op = "transform" THEN _yj_trans_single_x(x, lam) ELSE _yj_inv_single(x, lam)

\* C12: a successful transform(X) or inverse_transform(X) returns a matrix of
\* the shape of X whose entry in row i and column j is the forward
\* (respectively inverse) rule applied to the entry of X in row i and column j
\* with lambda_[j]: no other column of X and no other lambda enters it.
C12_ColumnWise ==
  (call.op \in Applying /\ call.status = "ok")
    => /\ Len(call.out) = Len(call.arg)
       /\ \A i \in 1..Len(call.arg) :
            /\ Len(call.out[i]) = Len(call.arg[i])
            /\ \A j \in 1..Len(call.arg[i]) :
                 call.out[i][j] = Primitive(call.op, call.arg[i][j], lambda_[j])

C12_Witness ==
  /\ call.op = "transform"
  /\ call.status = "ok"
  /\ Len(call.arg) = 2
  /\ Len(call.arg[1]) = 2
  /\ call.out[2][2] = _yj_trans_single_x(call.arg[2][2], lambda_[2])
  /\ call.out[2][2] # _yj_trans_single_x(call.arg[2][2], lambda_[1])
  /\ call.out[2][2] # _yj_trans_single_x(call.arg[2][1], lambda_[2])

\* what fit(X) followed by transform(X) gives when the fit has succeeded with
\* outcome f and the transform ends with outcome t
C13_AsFitThenTransform(f, t) ==
  /\ call.status = t.status
  /\ call.out = t.out
  /\ fitted
  /\ lambda_ = f.lambda_
  /\ fitX = call.arg

\* what fit(X) followed by transform(X) gives, f the outcome of the fit
C13_AsComposition(f) ==
  IF f.status = "ok"
  THEN C13_AsFitThenTransform(f, transform_run(TRUE, f.lambda_, call.arg))
  ELSE /\ call.status = f.status
       /\ call.msg = f.msg
       /\ call.out = NoMatrix
       /\ lambda_ = call.was

\* C13: fit_transform(X) returns the matrix, and leaves the lambda vector,
\* that fit(X) followed by transform(X) returns and leaves, and it fails
\* exactly when one of the two fails, with that failure.
C13_FitTransformIsComposition ==
  (call.op = "fit_transform") => C13_AsComposition(fit_run(n_jobs, call.arg))

C13_Witness ==
  /\ call.op = "fit_transform"
  /\ call.status = "ok"
  /\ call.was # <<>>
  /\ call.was # lambda_
  /\ Len(call.arg[1]) = 2
  /\ call.out = transform_run(TRUE, fit_run(n_jobs, call.arg).lambda_, call.arg).out

\* the values of the vector y are all the same
IsConstant(y) == \A i \in 1..Len(y) : y[i] = y[1]

\* C14: for a non-empty sample, at every lambda at which the transformed
\* sample is constant (its population variance is exactly zero), and so for
\* every constant sample at every lambda, the evaluator returns NaN without
\* raising.
C14_NaNOnZeroVariance ==
  (evaluation.stage = "done" /\ Len(evaluation.data) > 0
     /\ IsConstant(_yj_transform_y(evaluation.data, evaluation.lmb)))
    => (~evaluation.raised /\ evaluation.llf.nan)

\* C15: the evaluator raises exactly for the empty sample, at every lambda,
\* and then before it has transformed or shifted anything.
C15_EmptySampleRaises ==
  (evaluation.stage = "done")
    => /\ evaluation.raised <=> (Len(evaluation.data) = 0)
       /\ evaluation.raised
            => (~evaluation.transformed /\ evaluation.data_after = evaluation.data)

C15_Witness ==
  /\ evaluation.stage = "done"
  /\ evaluation.data = <<>>
  /\ evaluation.lmb = I(2)
  /\ evaluation.raised
  /\ ~evaluation.transformed

\* C16: when the evaluator returns, the caller's sample vector holds the
\* values it held before the call, also when its minimum is below 1e-12.
C16_ShiftsAreLocal ==
  (evaluation.stage = "done") => evaluation.data_after = evaluation.data

\* the estimates of the columns of X, each computed alone, in column order
ColumnEstimates(X) ==
  [j \in 1..Len(X[1]) |-> _yj_estimate_lambda_single_y(Column(X, j))]

C18_TasksShareNothing ==
  [][(parallel.stage = "running" /\ parallel'.stage = "running")
       => \A j \in 1..Len(parallel.tasks) :
            \/ parallel'.tasks[j] = parallel.tasks[j]
            \/ \A k \in 1..Len(parallel.tasks) :
                 k # j => parallel'.tasks[k] = parallel.tasks[k]]_vars

C18_Witness ==
  /\ parallel.stage = "running"
  /\ n_jobs = 2
  /\ Len(parallel.tasks) = 2
  /\ started(parallel.tasks[1]) /\ ~done(parallel.tasks[1])
  /\ started(parallel.tasks[2]) /\ ~done(parallel.tasks[2])
  /\ parallel.tasks[1].data # Column(call.arg, 1)
  /\ parallel.tasks[2].data = Column(call.arg, 2)

\* C19: while a fit has not succeeded, and after any call that has failed,
\* the estimator has the lambda vector, or the lack of one, that it had when
\* the call began, and a call that has failed has returned nothing.
C19_NoPartialResult ==
  (call.status # "ok")
    => /\ lambda_ = call.was
       /\ fitted <=> (call.was # <<>>)
       /\ call.out = NoMatrix

C19_Witness ==
  /\ call.op = "fit"
  /\ call.status = "ValueError"
  /\ call.msg = "output array is read-only"
  /\ Len(parallel.finished) > 0
  /\ call.was # <<>>
  /\ lambda_ = call.was

\* the sum the mean validation score of candidate c is the quotient of: its
\* scores weighted by the sizes of the folds when iid, unweighted otherwise
ScoreSum(c) ==
  IF search.iid
  THEN search.scores[c][1] * FoldSizes[1] + search.scores[c][2] * FoldSizes[2]
  ELSE search.scores[c][1] + search.scores[c][2]

\* C20: the search selects the candidate with the highest mean validation
\* score, and among several with the highest score the earliest in the
\* order of the candidates; best_score_ is that candidate's score.
C20_BestIsEarliestMaximum ==
  (search.stage = "done")
    => /\ search.best_params_ \in 1..Len(search.scores)
       /\ \A c \in 1..Len(search.scores) :
            /\ ScoreSum(c) <= ScoreSum(search.best_params_)
            /\ c < search.best_params_ => ScoreSum(c) < ScoreSum(search.best_params_)
       /\ search.best_score_
            = search.grid_scores_[search.best_params_].mean_validation_score
       /\ search.best_score_
            = QQ(ScoreSum(search.best_params_),
                 IF search.iid THEN FoldSizes[1] + FoldSizes[2] ELSE 2)

C20_Witness ==
  /\ search.stage = "done"
  /\ ~search.iid
  /\ Len(search.scores) = 3
  /\ search.best_params_ = 2
  /\ ScoreSum(3) = ScoreSum(2)
  /\ search.scores[3] # search.scores[2]
  /\ ScoreSum(1) < ScoreSum(2)

\* C21: after a fit with refit = False the object has no best_estimator_, so
\* predict is impossible, whatever the earlier fits of the object were; after
\* a fit with refit = True best_estimator_ carries best_params_, is fitted on
\* all the samples, and is not the estimator the search was given.
C21_RefitDecidesBestEstimator ==
  (search.stage = "done")
    => /\ ~search.refit => "best_estimator_" \notin search.attrs
       /\ search.refit
            => /\ "best_estimator_" \in search.attrs
               /\ search.best_estimator_
                    = estimator_fit(Estimator(search.best_params_), AllSamples)
               /\ search.estimator = Estimator(0)

Least(v) == v[CHOOSE i \in 1..Len(v) : \A j \in 1..Len(v) : Num(v[i]) <= Num(v[j])]

\* v with |min| + 1 added to every value when its minimum is below 1e-12, v
\* itself otherwise
Shifted(v) ==
  IF LT(Least(v), ZERO)
  THEN [i \in 1..Len(v) |-> Add(v[i], Add(Abs(Least(v)), Q1))]
  ELSE v

C24_SameScoreAgain ==
  (evaluation.stage = "again") => evaluation.llf_again = evaluation.llf

\* a value of the matrix X is below 1e-12 (the evaluator shifts the array it
\* is given when that array holds such a value)
HasValueBelowZERO(X) ==
  \E i \in 1..Len(X) : \E j \in 1..Len(X[i]) : IsFinite(X[i][j]) /\ LT(X[i][j], ZERO)

\* C25: when fit, fit_transform, transform or inverse_transform ends, raising
\* or not, the caller's matrix holds the values it held when the call began,
\* for every n_jobs; and what fit_transform returns is the transform of those
\* values with the lambdas estimated from those values.
C25_CallerMatrixUnchanged ==
  (call.op \in {"fit", "fit_transform", "transform", "inverse_transform"})
    => /\ call.arg_after = call.arg
       /\ (call.op = "fit_transform" /\ call.status = "ok")
            => /\ lambda_ = ColumnEstimates(call.arg)
               /\ call.out = [i \in 1..Len(call.arg) |->
                                [j \in 1..Len(call.arg[i]) |->
                                   _yj_trans_single_x(call.arg[i][j], lambda_[j])]]

C25_Witness ==
  /\ call.op = "fit_transform"
  /\ call.status = "ok"
  /\ n_jobs = 1
  /\ HasValueBelowZERO(call.arg)
  /\ call.arg_after = call.arg
  /\ call.out # call.arg

\* C26: after a fit of the search grid_scores_ has one entry for every
\* candidate, in the order of the candidates, and the fold scores of an entry
\* are the scores of the folds of its candidate, each once, in the order of
\* the folds.
C26_OneEntryPerCandidate ==
  (search.stage = "done")
    => /\ "grid_scores_" \in search.attrs
       /\ Len(search.grid_scores_) = Len(search.scores)
       /\ \A c \in 1..Len(search.scores) :
            /\ search.grid_scores_[c].parameters = c
            /\ Len(search.grid_scores_[c].cv_validation_scores) = n_folds
            /\ \A f \in 1..n_folds :
                 search.grid_scores_[c].cv_validation_scores[f] = search.scores[c][f]

C26_Witness ==
  /\ search.stage = "done"
  /\ search.scores = <<<<0, 1>>, <<1, 1>>, <<1, 0>>>>
  /\ Len(search.grid_scores_) = 3
  /\ search.grid_scores_[2].cv_validation_scores = <<1, 1>>
  /\ search.grid_scores_[3].cv_validation_scores = <<1, 0>>

\* the decomposition the object holds
Held(d) == IF d.kind = "pca" THEN d.pca_ ELSE d.svd_

\* the position in the frame X of its column named nm
Position(X, nm) == CHOOSE j \in 1..Len(X) : X[j].name = nm

\* the names of cols_ are the selected columns
Selected(nm) == \E i \in 1..Len(decomposer.cols_.names) : decomposer.cols_.names[i] = nm

\* C27: what transform returns for a frame X on a fitted object has the k
\* component columns first, named PC1..PCk (Concept1..Conceptk), then every
\* column of X that is not selected, once, in the order of X, and no selected
\* column; the caller's frame is as it was.
C27_ComponentsThenOthers ==
  (decomposer.result.op = "transform" /\ decomposer.result.status = "ok")
    => /\ Held(decomposer).k >= 1
       /\ Len(decomposer.result.out.columns)
            = Held(decomposer).k
              + Cardinality({j \in 1..Len(decomposer.result.X) :
                               ~Selected(decomposer.result.X[j].name)})
       /\ \A i \in 1..Len(decomposer.result.out.columns) :
            IF i <= Held(decomposer).k
            THEN decomposer.result.out.columns[i]
                   = [name |-> IF decomposer.kind = "pca" THEN PCNames[i]
                               ELSE ConceptNames[i],
                      origin |-> "components"]
            ELSE /\ \E j \in 1..Len(decomposer.result.X) :
                      decomposer.result.out.columns[i] = decomposer.result.X[j]
                 /\ ~Selected(decomposer.result.out.columns[i].name)
       /\ \A i, j \in (Held(decomposer).k + 1)..Len(decomposer.result.out.columns) :
            i < j => Position(decomposer.result.X, decomposer.result.out.columns[i].name)
                       < Position(decomposer.result.X, decomposer.result.out.columns[j].name)
       /\ decomposer.result.X_after = decomposer.result.X
       /\ decomposer.result.out.as_df = decomposer.as_df

C27_Witness ==
  /\ decomposer.result.op = "transform"
  /\ decomposer.result.status = "ok"
  /\ decomposer.kind = "pca"
  /\ decomposer.as_df
  /\ decomposer.cols_ = Cols("list", <<"a">>)
  /\ columns_of(decomposer.result.X) = <<"c", "a", "b">>
  /\ [i \in 1..3 |-> decomposer.result.out.columns[i].name] = <<"PC1", "c", "b">>
  /\ Len(decomposer.result.out.columns) = 3

\* C28: on an object no fit of which has returned, transform fails with a
\* not-fitted error and get_decomposition raises ValueError; once a fit has
\* returned, get_decomposition returns the decomposition that the last fit
\* that returned has produced, and transform no longer fails as not fitted.
C28_DecompositionOfLastFit ==
  /\ (decomposer.result.op = "transform")
       => (decomposer.result.status = "NotFittedError"
             <=> decomposer.produced = NoDecomposition)
  /\ (decomposer.result.op = "get_decomposition")
       => IF decomposer.produced = NoDecomposition
          THEN decomposer.result.status = "ValueError"
          ELSE /\ decomposer.result.status = "ok"
               /\ decomposer.result.out = decomposer.produced
               /\ decomposer.result.out.kind = decomposer.kind

C28_Witness ==
  /\ decomposer.result.op = "get_decomposition"
  /\ decomposer.result.status = "ok"
  /\ decomposer.kind = "svd"
  /\ decomposer.cols_.type = "list"
  /\ decomposer.result.out = Decomposition("svd", <<"b", "a">>, 2)

C28_WitnessNeverFit ==
  /\ decomposer.result.op = "get_decomposition"
  /\ decomposer.result.status = "ValueError"
  /\ decomposer.attrs = {}

====
